---- MODULE Spec2Model ----
(***************************************************************************)
(* The tournament lifecycle of Game-Zone: the Tournament document (the     *)
(* model required as models/Tournament), its pre-save hook,                *)
(* registerParticipant and generateBracket, and the request handlers of    *)
(* routes/tournaments.js and routes/admin.js that read, change and save    *)
(* one tournament.                                                         *)
(*                                                                         *)
(* One tournament document is modelled.  Time is an integer clock `now`;   *)
(* every handler reads `new Date()` as the clock's value at its step.      *)
(* Document fields that no handler reads or writes after creation (title,  *)
(* prizePool, media, registeredAt, ...) are left out.                      *)
(***************************************************************************)
EXTENDS Integers, Sequences, FiniteSets, TLC

\* ---------------------------------------------------------------- bounds
\* The clock runs over 0..MaxTime.
MaxTime == 3
\* stats.totalViews is counted up to MaxViews.
MaxViews == 1
\* stats.matchesCompleted is counted up to MaxCompleted.
MaxCompleted == 2
\* Brackets are generated at most MaxGen times (each generation draws fresh
\* match ids).
MaxGen == 2
\* Largest participant list drawn for the bracket generator.
MaxBracketN == 5
\* Number of requests in flight at once in the interleaved specification.
NumProcs == 2
\* Events the server emits to rooms, all rooms together.
MaxEvents == 3

\* ------------------------------------------------------------ value sets
Organizer == "org"
Moderators == {"mod"}
\* The users that send requests: the organizer, a chat moderator and a user
\* that is neither.
Users == {"org", "mod", "u1"}
NoUser == "none"
Unset == 0 - 1

\* The user of the i-th entry of a drawn participant list.
UserPool == <<"org", "mod", "u1", "u2", "u3", "u4", "u5", "u6">>

StatusEnum == {"upcoming", "registration", "live", "completed", "cancelled"}
ParticipantStatusEnum == {"registered", "confirmed", "eliminated", "disqualified"}
MatchStatusEnum == {"scheduled", "in-progress", "completed", "forfeit"}

\* Creation requests: the registration window, the schedule window and
\* registration.maxParticipants (validated >= 2) come from the request body.
RegWindows == {<<1, 2>>}
SchedWindows == {<<2, 2>>}
Capacities == {2}

\* Inputs of a match-result request.
WinnerInputs == {"u1", "mod"}
ScoreInputs == {<<2, 1>>}

Procs == 1..NumProcs

VARIABLES now, doc, idGen, response, reqs, io

vars == <<now, doc, idGen, response, reqs, io>>

\* ------------------------------------------------------------- documents
\* A tournament as `new Tournament(body)` builds it, schema defaults applied.
NewTournament(reg, sched, cap) ==
  [ organizer |-> Organizer,
    moderators |-> Moderators,
    status |-> "upcoming",
    regStart |-> reg[1], regEnd |-> reg[2],
    isOpen |-> TRUE,
    maxParticipants |-> cap,
    schedStart |-> sched[1], schedEnd |-> sched[2],
    matches |-> <<>>,
    participants |-> <<>>,
    totalViews |-> 0,
    matchesCompleted |-> 0,
    totalMatches |-> 0 ]

\* A match subdocument as generateBracket pushes it, schema defaults applied.
NewMatch(id, round, matchNumber) ==
  [ id |-> id, round |-> round, matchNumber |-> matchNumber,
    player1 |-> NoUser, player2 |-> NoUser,
    winner |-> NoUser, score |-> <<0, 0>>,
    status |-> "scheduled", actualEndTime |-> Unset ]

NewParticipant(userId) == [user |-> userId, status |-> "registered"]

\* ----------------------------------------------------------- pre('save')
\* The window test with the end date excluded (now < endDate).
DeriveIsOpen_EndExclusive(d, t) == t >= d.regStart /\ t < d.regEnd

DeriveIsOpen(d, t) == t >= d.regStart /\ t <= d.regEnd

\* The schedule test with the start date still counted as upcoming.
DeriveStatus_StartExclusive(d, t) ==
  IF t <= d.schedStart THEN "upcoming"
  ELSE IF t <= d.schedEnd THEN "live"
  ELSE "completed"

DeriveStatus(d, t) ==
  IF t < d.schedStart THEN "upcoming"
  ELSE IF t >= d.schedStart /\ t <= d.schedEnd THEN "live"
  ELSE IF t > d.schedEnd THEN "completed"
  ELSE d.status

\* The hook without the total-match line.
PreSave_NoTotalMatches(d, t) ==
  [d EXCEPT !.isOpen = DeriveIsOpen(d, t),
            !.status = DeriveStatus(d, t)]

PreSave(d, t) ==
  [d EXCEPT !.isOpen = DeriveIsOpen(d, t),
            !.status = DeriveStatus(d, t),
            !.totalMatches = Len(d.matches)]

\* --------------------------------------------------------------- virtuals
CurrentParticipants(d) ==
  Cardinality({i \in 1..Len(d.participants) : d.participants[i].status # "disqualified"})

\* The lookup comparing the ObjectId objects themselves (p.user === userId),
\* which never matches.
HasParticipant_ByIdentity(d, userId) == FALSE

\* participants.find(p => p.user.toString() === userId.toString())
HasParticipant(d, userId) ==
  \E i \in 1..Len(d.participants) : d.participants[i].user = userId

\* participants.findIndex(...): the first matching index, 0 for -1.
FindParticipantIndex(d, userId) ==
  IF HasParticipant(d, userId)
  THEN CHOOSE i \in 1..Len(d.participants) :
         /\ d.participants[i].user = userId
         /\ \A j \in 1..(i - 1) : d.participants[j].user # userId
  ELSE 0

\* Array.prototype.splice(index, 1)
Splice(s, index) == [i \in 1..(Len(s) - 1) |-> IF i < index THEN s[i] ELSE s[i + 1]]

\* ------------------------------------------------- registerParticipant
\* The outcome of a call: the error kind (or "ok") and the document that is
\* persisted ("ok") or was left untouched (an error).
Outcome(kind, d) == [kind |-> kind, doc |-> d]

\* registerParticipant with the capacity test written > instead of >=.
RegisterParticipant_OffByOne(d, userId, t) ==
  IF HasParticipant(d, userId) THEN Outcome("AlreadyRegistered", d)
  ELSE IF ~d.isOpen THEN Outcome("RegistrationClosed", d)
  ELSE IF CurrentParticipants(d) > d.maxParticipants THEN Outcome("TournamentFull", d)
  ELSE Outcome("ok",
         PreSave([d EXCEPT !.participants = Append(@, NewParticipant(userId))], t))

\* registerParticipant with the capacity test moved before the open test.
RegisterParticipant_FullFirst(d, userId, t) ==
  IF HasParticipant(d, userId) THEN Outcome("AlreadyRegistered", d)
  ELSE IF CurrentParticipants(d) >= d.maxParticipants THEN Outcome("TournamentFull", d)
  ELSE IF ~d.isOpen THEN Outcome("RegistrationClosed", d)
  ELSE Outcome("ok",
         PreSave([d EXCEPT !.participants = Append(@, NewParticipant(userId))], t))

RegisterParticipant(d, userId, t) ==
  IF HasParticipant(d, userId) THEN Outcome("AlreadyRegistered", d)
  ELSE IF ~d.isOpen THEN Outcome("RegistrationClosed", d)
  ELSE IF CurrentParticipants(d) >= d.maxParticipants THEN Outcome("TournamentFull", d)
  ELSE Outcome("ok",
         PreSave([d EXCEPT !.participants = Append(@, NewParticipant(userId))], t))

\* POST /:id/register on the document the handler loaded.
RegisterRoute(d, userId, t) ==
  IF HasParticipant(d, userId) THEN Outcome("AlreadyRegistered", d)
  ELSE RegisterParticipant(d, userId, t)

\* The unregister handler with the started test missing 'completed'.
UnregisterRoute_LiveOnly(d, userId, t) ==
  LET participantIndex == FindParticipantIndex(d, userId)
  IN IF participantIndex = 0 THEN Outcome("NotRegistered", d)
     ELSE IF d.status = "live" THEN Outcome("TournamentStarted", d)
     ELSE Outcome("ok",
            PreSave([d EXCEPT !.participants = Splice(@, participantIndex)], t))

\* The unregister handler that removes and saves before it tests whether the
\* tournament has started.
UnregisterRoute_SaveFirst(d, userId, t) ==
  LET participantIndex == FindParticipantIndex(d, userId)
      removed == PreSave([d EXCEPT !.participants = Splice(@, participantIndex)], t)
  IN IF participantIndex = 0 THEN Outcome("NotRegistered", d)
     ELSE IF d.status = "live" \/ d.status = "completed"
       THEN Outcome("TournamentStarted", removed)
     ELSE Outcome("ok", removed)

\* DELETE /:id/unregister on the document the handler loaded.
UnregisterRoute(d, userId, t) ==
  LET participantIndex == FindParticipantIndex(d, userId)
  IN IF participantIndex = 0 THEN Outcome("NotRegistered", d)
     ELSE IF d.status = "live" \/ d.status = "completed"
       THEN Outcome("TournamentStarted", d)
     ELSE Outcome("ok",
            PreSave([d EXCEPT !.participants = Splice(@, participantIndex)], t))

\* ------------------------------------------------------ generateBracket
\* Math.floor written for Math.ceil.
RECURSIVE CeilLog2_Floor(_)
CeilLog2_Floor(n) == IF n <= 1 THEN 0 ELSE 1 + CeilLog2_Floor(n \div 2)

\* Math.ceil(Math.log2(n)) for n >= 1, by repeated halving.
RECURSIVE CeilLog2(_)
CeilLog2(n) == IF n <= 1 THEN 0 ELSE 1 + CeilLog2((n + 1) \div 2)

\* The inner loop: matchesInRound pushes, numbered from matchNumber on.
\* g is the generation the match ids are drawn in.
RoundMatches(g, round, matchesInRound, matchNumber) ==
  [i \in 1..matchesInRound |-> NewMatch(<<g, matchNumber + i - 1>>, round, matchNumber + i - 1)]

\* The outer loop over round = 1..rounds.
RECURSIVE BracketLoop(_, _, _, _, _)
BracketLoop(g, round, rounds, matchNumber, matches) ==
  IF round > rounds THEN matches
  ELSE LET matchesInRound == 2 ^ (rounds - round)
       IN BracketLoop(g, round + 1, rounds, matchNumber + matchesInRound,
                      matches \o RoundMatches(g, round, matchesInRound, matchNumber))

\* The count taken from the currentParticipants virtual (not disqualified)
\* instead of the 'registered' filter.
RegisteredCount_NotDisqualified(d) == CurrentParticipants(d)

\* participants.filter(p => p.status === 'registered').length
RegisteredCount(d) ==
  Cardinality({i \in 1..Len(d.participants) : d.participants[i].status = "registered"})

\* generateBracket pushing the new matches after the ones the document holds.
GenerateBracketMethod_Append(d, g, t) ==
  LET participantCount == RegisteredCount(d)
  IN IF participantCount < 2 THEN Outcome("InsufficientParticipants", d)
     ELSE LET rounds == CeilLog2(participantCount)
          IN Outcome("ok",
               PreSave([d EXCEPT !.matches = @ \o BracketLoop(g, 1, rounds, 1, <<>>)], t))

GenerateBracketMethod(d, g, t) ==
  LET participantCount == RegisteredCount(d)
  IN IF participantCount < 2 THEN Outcome("InsufficientParticipants", d)
     ELSE LET rounds == CeilLog2(participantCount)
          IN Outcome("ok",
               PreSave([d EXCEPT !.matches = BracketLoop(g, 1, rounds, 1, <<>>)], t))

\* The bracket route with the permission test of the match-result route
\* (organizer or moderator).
GenerateBracketRoute_Moderators(d, actor, g, t) ==
  IF ~(d.organizer = actor \/ actor \in d.moderators) THEN Outcome("Forbidden", d)
  ELSE GenerateBracketMethod(d, g, t)

\* POST /:id/generate-bracket on the document the handler loaded.
GenerateBracketRoute(d, actor, g, t) ==
  IF d.organizer # actor THEN Outcome("Forbidden", d)
  ELSE GenerateBracketMethod(d, g, t)

\* ------------------------------------------------ PUT /:id/match/:matchId
\* schedule.matches.id(matchId): the index of the match, 0 for null.
FindMatchIndex(d, matchId) ==
  IF \E i \in 1..Len(d.matches) : d.matches[i].id = matchId
  THEN CHOOSE i \in 1..Len(d.matches) : d.matches[i].id = matchId
  ELSE 0

\* The match update without the end time.
CompleteMatch_NoEndTime(m, winner, score, t) ==
  [m EXCEPT !.winner = winner, !.score = score, !.status = "completed"]

\* The permission test with the moderator test negated.
IsAuthorized_Negated(d, actor) == d.organizer = actor \/ actor \notin d.moderators

IsAuthorized(d, actor) == d.organizer = actor \/ actor \in d.moderators

CompleteMatch(m, winner, score, t) ==
  [m EXCEPT !.winner = winner, !.score = score,
            !.status = "completed", !.actualEndTime = t]

\* The match-result handler with the match looked up before the permission
\* test.
MatchResultRoute_LookupFirst(d, actor, matchId, winner, score, t) ==
  LET k == FindMatchIndex(d, matchId)
  IN IF k = 0 THEN Outcome("MatchNotFound", d)
     ELSE IF ~IsAuthorized(d, actor) THEN Outcome("Forbidden", d)
     ELSE Outcome("ok",
            PreSave([d EXCEPT !.matches[k] = CompleteMatch(@, winner, score, t),
                              !.matchesCompleted = @ + 1], t))

MatchResultRoute(d, actor, matchId, winner, score, t) ==
  IF ~IsAuthorized(d, actor) THEN Outcome("Forbidden", d)
  ELSE LET k == FindMatchIndex(d, matchId)
       IN IF k = 0 THEN Outcome("MatchNotFound", d)
          ELSE Outcome("ok",
                 PreSave([d EXCEPT !.matches[k] = CompleteMatch(@, winner, score, t),
                                   !.matchesCompleted = @ + 1], t))

\* GET /:id by an authenticated user: a view is counted and the document saved.
ViewRoute(d, t) == Outcome("ok", PreSave([d EXCEPT !.totalViews = @ + 1], t))

\* The status route writing the requested status without the hook running.
AdminStatusRoute_NoHook(d, status, t) == Outcome("ok", [d EXCEPT !.status = status])

\* PUT /api/admin/tournaments/:id/status
AdminStatusRoute(d, status, t) == Outcome("ok", PreSave([d EXCEPT !.status = status], t))

\* Ids a match-result request may name: the ids of the matches the document
\* holds, the first id of the generation before (gone since the bracket was
\* generated again) and an id no match ever had.
MatchIdInputs(d, g) ==
  {d.matches[i].id : i \in 1..Len(d.matches)} \cup {<<g - 1, 1>>, <<0, 1>>}

\* ------------------------------------------------------------- socket.io
\* The tournament the document belongs to, and another tournament id.
ThisTournament == "T1"
TournamentIds == {"T1", "T2"}
\* The chat room ids clients name.
ChatIds == {"R1"}
Sockets == {"s1", "s2"}

\* The room `tournament-${tournamentId}`.
TournamentRoom(id) == <<"tournament", id>>
\* The room `chat-${roomId}`.
ChatRoom(id) == <<"chat", id>>
Rooms == {TournamentRoom(id) : id \in TournamentIds} \cup {ChatRoom(id) : id \in ChatIds}

\* What a socket is sent: the event name and the data, the data taken as the
\* tournamentId or roomId it carries.
Deliveries ==
  {<<"tournament-status", id>> : id \in TournamentIds}
    \cup {<<"new-message", id>> : id \in ChatIds}

\* The server's socket state: the rooms each connected socket is in, how many
\* events the server has emitted to each room, and how many times each socket
\* has been sent each event.
IoInit ==
  [ rooms |-> [s \in Sockets |-> {}],
    emitted |-> [r \in Rooms |-> 0],
    received |-> [s \in Sockets |-> [d \in Deliveries |-> 0]] ]

\* The number of events emitted so far.
RECURSIVE SumEmitted(_, _)
SumEmitted(state, rooms) ==
  IF rooms = {} THEN 0
  ELSE LET r == CHOOSE x \in rooms : TRUE
       IN state.emitted[r] + SumEmitted(state, rooms \ {r})

TotalEmitted(state) == SumEmitted(state, Rooms)

\* io.emit(event, data): sent to every connected socket.
EmitTo_Broadcast(state, room, event, data) ==
  [state EXCEPT
     !.emitted[room] = @ + 1,
     !.received = [s \in Sockets |->
                     [state.received[s] EXCEPT ![<<event, data>>] = @ + 1]]]

\* io.to(room).emit(event, data): one more event for the room, sent to the
\* sockets that are in it.
EmitTo(state, room, event, data) ==
  [state EXCEPT
     !.emitted[room] = @ + 1,
     !.received = [s \in Sockets |->
                     IF room \in state.rooms[s]
                     THEN [state.received[s] EXCEPT ![<<event, data>>] = @ + 1]
                     ELSE state.received[s]]]

\* -------------------------------------------------------------- requests
\* What the last handler answered: the operation, who asked, and the outcome.
Response(op, actor, kind) == [op |-> op, actor |-> actor, kind |-> kind]

\* A request in flight (the interleaved specification): where its handler is,
\* who sent it, and the document findById returned to it.
NoDoc == [status |-> "none"]
IdleRequest == [pc |-> "idle", user |-> NoUser, snap |-> NoDoc]

\* The tournament POST / persists from a well-formed body at creation time t.
CreateTournament(reg, sched, cap, t) == PreSave(NewTournament(reg, sched, cap), t)

Init ==
  /\ now \in 0..MaxTime
  /\ \E reg \in RegWindows, sched \in SchedWindows, cap \in Capacities :
       doc = CreateTournament(reg, sched, cap, now)
  /\ idGen = 0
  /\ response = Response("create", Organizer, "ok")
  /\ reqs = [p \in Procs |-> IdleRequest]
  /\ io = IoInit

\* The clock advances.
Tick ==
  /\ now < MaxTime
  /\ now' = now + 1
  /\ response' = Response("tick", NoUser, "ok")
  /\ UNCHANGED <<doc, idGen, reqs, io>>

\* POST /:id/register, the handler run from findById to save without
\* another request in between.
Register(userId) ==
  LET r == RegisterRoute(doc, userId, now)
  IN /\ doc' = r.doc
     /\ response' = Response("register", userId, r.kind)
     /\ UNCHANGED <<now, idGen, reqs, io>>

\* DELETE /:id/unregister
Unregister(userId) ==
  LET r == UnregisterRoute(doc, userId, now)
  IN /\ doc' = r.doc
     /\ response' = Response("unregister", userId, r.kind)
     /\ UNCHANGED <<now, idGen, reqs, io>>

\* POST /:id/generate-bracket
GenerateBracket(actor) ==
  LET r == GenerateBracketRoute(doc, actor, idGen + 1, now)
  IN /\ idGen < MaxGen
     /\ doc' = r.doc
     /\ idGen' = IF r.kind = "ok" THEN idGen + 1 ELSE idGen
     /\ response' = Response("generateBracket", actor, r.kind)
     /\ UNCHANGED <<now, reqs, io>>

\* PUT /:id/match/:matchId
RecordMatchResult(actor, matchId, winner, score) ==
  LET r == MatchResultRoute(doc, actor, matchId, winner, score, now)
  IN /\ doc.matchesCompleted < MaxCompleted
     /\ doc' = r.doc
     /\ response' = [op |-> "recordMatchResult", actor |-> actor, kind |-> r.kind,
                      matchId |-> matchId, winner |-> winner, score |-> score]
     /\ UNCHANGED <<now, idGen, reqs, io>>

\* GET /:id with a logged-in user
ViewTournament ==
  LET r == ViewRoute(doc, now)
  IN /\ doc.totalViews < MaxViews
     /\ doc' = r.doc
     /\ response' = Response("view", NoUser, r.kind)
     /\ UNCHANGED <<now, idGen, reqs, io>>

\* PUT /api/admin/tournaments/:id/status
AdminUpdateStatus(status) ==
  LET r == AdminStatusRoute(doc, status, now)
  IN /\ doc' = r.doc
     /\ response' = Response("adminStatus", status, r.kind)
     /\ UNCHANGED <<now, idGen, reqs, io>>

Next ==
  \/ Tick
  \/ \E u \in Users : Register(u)
  \/ \E u \in Users : Unregister(u)
  \/ \E u \in Users : GenerateBracket(u)
  \/ \E u \in Users, id \in MatchIdInputs(doc, idGen), w \in WinnerInputs, sc \in ScoreInputs :
       RecordMatchResult(u, id, w, sc)
  \/ ViewTournament
  \/ \E st \in StatusEnum : AdminUpdateStatus(st)

Spec == Init /\ [][Next]_vars

\* ------------------------------------------------------------------------
\* The socket handlers of the server.  The response names the socket and the
\* room the message was about.
SocketResponse(op, s, room) == [op |-> op, actor |-> s, kind |-> "ok", room |-> room]

\* socket.on('join-tournament')
JoinTournament(s, id) ==
  /\ io' = [io EXCEPT !.rooms[s] = @ \cup {TournamentRoom(id)}]
  /\ response' = SocketResponse("join-tournament", s, TournamentRoom(id))
  /\ UNCHANGED <<now, doc, idGen, reqs>>

\* socket.on('leave-tournament')
LeaveTournament(s, id) ==
  /\ io' = [io EXCEPT !.rooms[s] = @ \ {TournamentRoom(id)}]
  /\ response' = SocketResponse("leave-tournament", s, TournamentRoom(id))
  /\ UNCHANGED <<now, doc, idGen, reqs>>

\* socket.on('join-chat')
JoinChat(s, id) ==
  /\ io' = [io EXCEPT !.rooms[s] = @ \cup {ChatRoom(id)}]
  /\ response' = SocketResponse("join-chat", s, ChatRoom(id))
  /\ UNCHANGED <<now, doc, idGen, reqs>>

\* socket.on('chat-message'): passed on to the chat room the message names.
ChatMessage(s, id) ==
  /\ TotalEmitted(io) < MaxEvents
  /\ io' = EmitTo(io, ChatRoom(id), "new-message", id)
  /\ response' = SocketResponse("chat-message", s, ChatRoom(id))
  /\ UNCHANGED <<now, doc, idGen, reqs>>

\* socket.on('tournament-update'): a client's message is passed on to the
\* room of the tournament it names.
TournamentUpdate(s, id) ==
  /\ TotalEmitted(io) < MaxEvents
  /\ io' = EmitTo(io, TournamentRoom(id), "tournament-status", id)
  /\ response' = SocketResponse("tournament-update", s, TournamentRoom(id))
  /\ UNCHANGED <<now, doc, idGen, reqs>>

\* The socket handlers alone, for every connected socket and every id.
NextSocket ==
  \/ \E s \in Sockets, id \in TournamentIds : JoinTournament(s, id)
  \/ \E s \in Sockets, id \in TournamentIds : LeaveTournament(s, id)
  \/ \E s \in Sockets, id \in ChatIds : JoinChat(s, id)
  \/ \E s \in Sockets, id \in ChatIds : ChatMessage(s, id)
  \/ \E s \in Sockets, id \in TournamentIds : TournamentUpdate(s, id)

InitSocket == Init /\ now = 0

SpecSocket == InitSocket /\ [][NextSocket]_vars

\* The request handlers together with one connected client that follows the
\* tournament and sends one update message.
NextNotify ==
  \/ Next
  \/ JoinTournament("s1", ThisTournament)
  \/ LeaveTournament("s1", ThisTournament)
  \/ (TotalEmitted(io) = 0 /\ TournamentUpdate("s1", ThisTournament))

SpecNotify == Init /\ [][NextNotify]_vars

\* ------------------------------------------------------------------------
\* Creation from any request body: the body is spread into the document, so
\* it may carry a status and matches besides the validated fields.
BodyStatuses == StatusEnum
BodyMatches == {<<>>, <<NewMatch(<<0, 1>>, 1, 1)>>}

\* new Tournament({...req.body, organizer, category}) and save, at time t.
CreateFromBody(reg, sched, cap, status, matches, t) ==
  PreSave([NewTournament(reg, sched, cap) EXCEPT !.status = status, !.matches = matches], t)

InitCreate ==
  /\ now \in 0..MaxTime
  /\ \E reg \in RegWindows, sched \in SchedWindows, cap \in Capacities :
       \E status \in BodyStatuses, matches \in BodyMatches :
         doc = CreateFromBody(reg, sched, cap, status, matches, now)
  /\ idGen = 0
  /\ response = Response("create", Organizer, "ok")
  /\ reqs = [p \in Procs |-> IdleRequest]
  /\ io = IoInit

NextCreate ==
  \/ Tick
  \/ ViewTournament
  \/ \E u \in Users : Register(u)
  \/ \E u \in Users : Unregister(u)
  \/ \E st \in StatusEnum : AdminUpdateStatus(st)

SpecCreate == InitCreate /\ [][NextCreate]_vars

\* ------------------------------------------------------------------------
\* generateBracket on drawn documents: a participant list of up to MaxBracketN
\* entries with any statuses of the schema, and a match collection that is
\* empty or holds the one-match bracket of an earlier generation.
DrawnParticipants(statuses) ==
  [i \in 1..Len(statuses) |-> [user |-> UserPool[i], status |-> statuses[i]]]

BracketDocument(statuses, generated) ==
  LET base == NewTournament(CHOOSE w \in RegWindows : TRUE,
                            CHOOSE w \in SchedWindows : TRUE,
                            IF Len(statuses) < 2 THEN 2 ELSE Len(statuses))
  IN [base EXCEPT !.participants = DrawnParticipants(statuses),
                  !.matches = IF generated THEN BracketLoop(1, 1, 1, 1, <<>>) ELSE <<>>]

InitBracket ==
  /\ now = 0
  /\ \E n \in 0..MaxBracketN, generated \in BOOLEAN :
       \E statuses \in [1..n -> ParticipantStatusEnum] :
         /\ doc = PreSave(BracketDocument(statuses, generated), now)
         /\ idGen = IF generated THEN 1 ELSE 0
  /\ response = Response("create", Organizer, "ok")
  /\ reqs = [p \in Procs |-> IdleRequest]
  /\ io = IoInit

NextBracket == \E u \in Users : GenerateBracket(u)

SpecBracket == InitBracket /\ [][NextBracket]_vars

\* ------------------------------------------------------------------------
\* Result recording on a bracket of several matches: a tournament with
\* MatchPlayers registered participants whose bracket has been generated.
MatchPlayers == 3

InitMatch ==
  /\ now = 0
  /\ doc = PreSave(BracketDocument([i \in 1..MatchPlayers |-> "registered"], TRUE), now)
  /\ idGen = 1
  /\ response = Response("generateBracket", Organizer, "ok")
  /\ reqs = [p \in Procs |-> IdleRequest]
  /\ io = IoInit

NextMatch ==
  \/ Tick
  \/ \E actor \in Users : GenerateBracket(actor)
  \/ \E actor \in Users, matchId \in MatchIdInputs(doc, idGen) :
       \E winner \in WinnerInputs, score \in ScoreInputs :
         RecordMatchResult(actor, matchId, winner, score)

SpecMatch == InitMatch /\ [][NextMatch]_vars

\* ------------------------------------------------------------------------
\* pre('save') on drawn documents: a stored document with any status of the
\* schema and either value of the stored flag, at any time of the clock, is
\* saved by the handlers that only touch a counter or the status.
InitDerive ==
  /\ now \in 0..MaxTime
  /\ \E reg \in RegWindows, sched \in SchedWindows, cap \in Capacities :
       \E status \in StatusEnum, isOpen \in BOOLEAN :
         doc = [NewTournament(reg, sched, cap) EXCEPT !.status = status, !.isOpen = isOpen]
  /\ idGen = 0
  /\ response = Response("create", Organizer, "ok")
  /\ reqs = [p \in Procs |-> IdleRequest]
  /\ io = IoInit

NextDerive ==
  \/ Tick
  \/ ViewTournament
  \/ \E st \in StatusEnum : AdminUpdateStatus(st)

SpecDerive == InitDerive /\ [][NextDerive]_vars

\* ------------------------------------------------------------------------
\* Interleaved register requests at one time of the clock.  A handler awaits
\* twice: findById, then save; other requests run in between.  save() sends the changes the
\* handler made to its copy: the pushed participant as an array push, and
\* each of isOpen, status and stats.totalMatches only where pre('save')
\* changed it on the copy.
RegisterSave(store, snap, saved) ==
  [store EXCEPT
     !.participants = @ \o SubSeq(saved.participants, Len(snap.participants) + 1,
                                  Len(saved.participants)),
     !.isOpen = IF saved.isOpen # snap.isOpen THEN saved.isOpen ELSE @,
     !.status = IF saved.status # snap.status THEN saved.status ELSE @,
     !.totalMatches = IF saved.totalMatches # snap.totalMatches
                      THEN saved.totalMatches ELSE @]

\* await Tournament.findById(req.params.id)
LoadForRegister(p, userId) ==
  /\ reqs[p].pc = "idle"
  /\ reqs' = [reqs EXCEPT ![p] = [pc |-> "loaded", user |-> userId, snap |-> doc]]
  /\ response' = Response("findById", userId, "ok")
  /\ UNCHANGED <<now, doc, idGen, io>>

\* The rest of POST /:id/register, on the copy loaded earlier.
FinishRegister(p) ==
  LET r == RegisterRoute(reqs[p].snap, reqs[p].user, now)
  IN /\ reqs[p].pc = "loaded"
     /\ doc' = IF r.kind = "ok" THEN RegisterSave(doc, reqs[p].snap, r.doc) ELSE doc
     /\ reqs' = [reqs EXCEPT ![p] = IdleRequest]
     /\ response' = Response("register", reqs[p].user, r.kind)
     /\ UNCHANGED <<now, idGen, io>>

NextRace ==
  \/ \E p \in Procs, u \in Users : LoadForRegister(p, u)
  \/ \E p \in Procs : FinishRegister(p)

SpecRace == Init /\ [][NextRace]_vars

\* ------------------------------------------------------------------------
\* Interleaved match-result requests on a generated bracket.  save() sends
\* the paths the handler changed on its copy: the four fields of the match
\* at the position it had in the copy, stats.matchesCompleted as the value
\* the copy holds after += 1, and what pre('save') changed.
RecordSave(store, snap, saved, k) ==
  [store EXCEPT
     !.matches[k] = [@ EXCEPT !.winner = saved.matches[k].winner,
                              !.score = saved.matches[k].score,
                              !.status = saved.matches[k].status,
                              !.actualEndTime = saved.matches[k].actualEndTime],
     !.matchesCompleted = saved.matchesCompleted,
     !.isOpen = IF saved.isOpen # snap.isOpen THEN saved.isOpen ELSE @,
     !.status = IF saved.status # snap.status THEN saved.status ELSE @,
     !.totalMatches = IF saved.totalMatches # snap.totalMatches
                      THEN saved.totalMatches ELSE @]

\* await Tournament.findById(req.params.id) of PUT /:id/match/:matchId
LoadForRecord(p, actor, matchId, winner, score) ==
  /\ reqs[p].pc = "idle"
  /\ reqs' = [reqs EXCEPT ![p] = [pc |-> "loaded", user |-> actor, snap |-> doc,
                                  matchId |-> matchId, winner |-> winner,
                                  score |-> score]]
  /\ response' = Response("findById", actor, "ok")
  /\ UNCHANGED <<now, doc, idGen, io>>

\* The rest of PUT /:id/match/:matchId, on the copy loaded earlier.
FinishRecord(p) ==
  LET q == reqs[p]
      r == MatchResultRoute(q.snap, q.user, q.matchId, q.winner, q.score, now)
      k == FindMatchIndex(q.snap, q.matchId)
  IN /\ q.pc = "loaded"
     /\ doc.matchesCompleted < MaxCompleted
     /\ doc' = IF r.kind = "ok" THEN RecordSave(doc, q.snap, r.doc, k) ELSE doc
     /\ reqs' = [reqs EXCEPT ![p] = IdleRequest]
     /\ response' = [op |-> "recordMatchResult", actor |-> q.user, kind |-> r.kind,
                      matchId |-> q.matchId, winner |-> q.winner, score |-> q.score]
     /\ UNCHANGED <<now, idGen, io>>

\* A tournament of MatchPlayers registered participants after its first
\* generateBracket.
InitMatchRace ==
  /\ now = 0
  /\ doc = GenerateBracketMethod(
             BracketDocument([i \in 1..MatchPlayers |-> "registered"], FALSE), 1, now).doc
  /\ idGen = 1
  /\ response = Response("generateBracket", Organizer, "ok")
  /\ reqs = [p \in Procs |-> IdleRequest]
  /\ io = IoInit

NextMatchRace ==
  \/ \E p \in Procs, actor \in Users, matchId \in MatchIdInputs(doc, idGen) :
       \E winner \in WinnerInputs, score \in ScoreInputs :
         LoadForRecord(p, actor, matchId, winner, score)
  \/ \E p \in Procs : FinishRecord(p)

SpecMatchRace == InitMatchRace /\ [][NextMatchRace]_vars

\* ================================================================ claims
\* The indexes of the participant entries of a user.
UserEntries(d, userId) ==
  {i \in 1..Len(d.participants) : d.participants[i].user = userId}

\* The number of participant entries that are not disqualified.
ActiveCount(d) ==
  Cardinality({i \in 1..Len(d.participants) : d.participants[i].status # "disqualified"})

\* The number of matches whose status is 'completed'.
CompletedCount(d) ==
  Cardinality({i \in 1..Len(d.matches) : d.matches[i].status = "completed"})

InRegistrationWindow(d, t) == d.regStart <= t /\ t <= d.regEnd

C3_WindowGating ==
  [][(response'.op = "register" /\ UserEntries(doc, response'.actor) = {}
        /\ ~InRegistrationWindow(doc, now)) =>
       (response'.kind = "RegistrationClosed" /\ doc'.participants = doc.participants)]_vars

\* C5: an unregister call by a user who has an entry fails with
\* TournamentStarted and removes nobody when the stored status is live or
\* completed; and an entry disappears only in an unregister step taken while
\* the stored status is upcoming or registration.
C5_UnregisterGating ==
  /\ [][(response'.op = "unregister" /\ UserEntries(doc, response'.actor) # {}
           /\ doc.status \in {"live", "completed"}) =>
          (response'.kind = "TournamentStarted" /\ doc'.participants = doc.participants)]_vars
  /\ [][(\E u \in Users : UserEntries(doc, u) # {} /\ UserEntries(doc', u) = {}) =>
          (response'.op = "unregister" /\ doc.status \in {"upcoming", "registration"})]_vars

\* C5 witness: a participant of a completed tournament was refused.
C5_Witness ==
  /\ response.op = "unregister" /\ response.kind = "TournamentStarted"
  /\ doc.status = "completed"
  /\ UserEntries(doc, response.actor) # {}

\* C6 (as claimed): after a successful recordMatchResult, stats.matchesCompleted
\* is the number of completed matches.
C6_StatsConsistency ==
  (response.op = "recordMatchResult" /\ response.kind = "ok") =>
    doc.matchesCompleted = CompletedCount(doc)

\* C10: a recordMatchResult call by a user who is neither the organizer nor a
\* moderator fails with Forbidden and leaves the whole document, so every
\* match and stats.matchesCompleted, as it was.
C10_ResultPermission ==
  [][(response'.op = "recordMatchResult" /\ response'.actor # doc.organizer
        /\ response'.actor \notin doc.moderators) =>
       (response'.kind = "Forbidden" /\ doc' = doc)]_vars

\* C10 witness: a bracket exists and an outsider's result was refused.
C10_Witness ==
  /\ response.op = "recordMatchResult" /\ response.kind = "Forbidden"
  /\ response.actor # doc.organizer /\ response.actor \notin doc.moderators
  /\ Len(doc.matches) > 0

\* The number of participant entries whose status is exactly 'registered'.
EligibleCount(d) ==
  Cardinality({i \in 1..Len(d.participants) : d.participants[i].status = "registered"})

\* The matches of round r.
MatchesOfRound(d, r) == {i \in 1..Len(d.matches) : d.matches[i].round = r}

\* C8: after a successful generateBracket over n >= 2 registered participants,
\* with R the least number such that 2^R >= n (R = ceil(log2 n)): there are
\* 2^R - 1 matches, the i-th match has matchNumber i, rounds run 1..R in
\* order, and round r holds exactly 2^(R - r) matches.
C8_BracketShape ==
  (response.op = "generateBracket" /\ response.kind = "ok") =>
    LET n == EligibleCount(doc)
        R == CHOOSE r \in 0..n : 2 ^ r >= n /\ \A q \in 0..(r - 1) : 2 ^ q < n
        m == doc.matches
    IN /\ n >= 2
       /\ Len(m) = 2 ^ R - 1
       /\ \A i \in 1..Len(m) : m[i].matchNumber = i /\ m[i].round \in 1..R
       /\ \A i \in 1..(Len(m) - 1) : m[i].round <= m[i + 1].round
       /\ \A r \in 1..R : Cardinality(MatchesOfRound(doc, r)) = 2 ^ (R - r)

\* C8 witness: a bracket generated for five registered participants has
\* rounds of 4, 2 and 1 matches.
C8_Witness ==
  /\ response.op = "generateBracket" /\ response.kind = "ok"
  /\ EligibleCount(doc) = 5
  /\ Len(doc.matches) = 7
  /\ Cardinality(MatchesOfRound(doc, 1)) = 4
  /\ Cardinality(MatchesOfRound(doc, 3)) = 1

\* C9: generateBracket by the organizer fails with InsufficientParticipants,
\* leaving the document and so its matches as they were, exactly when fewer
\* than two entries have status 'registered'; otherwise it succeeds.
C9_InsufficientParticipants ==
  [][(response'.op = "generateBracket" /\ response'.actor = doc.organizer) =>
       IF EligibleCount(doc) < 2
       THEN response'.kind = "InsufficientParticipants" /\ doc' = doc
       ELSE response'.kind = "ok"]_vars

\* C9 witness: a list with one registered entry among several entries of other
\* statuses was refused, and the matches generated earlier are still there.
C9_Witness ==
  /\ response.op = "generateBracket" /\ response.kind = "InsufficientParticipants"
  /\ EligibleCount(doc) = 1
  /\ ActiveCount(doc) >= 3
  /\ Len(doc.matches) = 1

C7_CapacityRace ==
  /\ [](ActiveCount(doc) <= doc.maxParticipants + NumProcs - 1)
  /\ [][(ActiveCount(doc') > doc.maxParticipants /\ ActiveCount(doc') > ActiveCount(doc)) =>
          \E p \in Procs :
            /\ reqs[p].pc = "loaded" /\ reqs'[p].pc = "idle"
            /\ ActiveCount(reqs[p].snap) < doc.maxParticipants
            /\ ActiveCount(doc') = ActiveCount(doc) + 1]_vars

\* C7 witness: three different users hold entries of a tournament for two,
\* the last of them added by a request that loaded the document before the
\* previous one saved.
C7_Witness ==
  /\ ActiveCount(doc) = doc.maxParticipants + 1
  /\ \A u \in Users : Cardinality(UserEntries(doc, u)) <= 1
  /\ response.op = "register" /\ response.kind = "ok"

\* The handlers of the tournament core that can fail.
CoreOps == {"register", "unregister", "generateBracket", "recordMatchResult"}

\* The last step was a handler that persisted the document at `now`.
JustPersisted == response.op # "tick" /\ response.kind = "ok"

\* C11: while the stored registration.isOpen is true, a register call by a
\* user without an entry fails with TournamentFull exactly when the number of
\* non-disqualified participants is already >= maxParticipants, and then adds
\* no participant; otherwise it succeeds.
C11_TournamentFull ==
  [][(response'.op = "register" /\ UserEntries(doc, response'.actor) = {} /\ doc.isOpen) =>
       IF ActiveCount(doc) >= doc.maxParticipants
       THEN response'.kind = "TournamentFull" /\ doc'.participants = doc.participants
       ELSE response'.kind = "ok"]_vars

\* C11 witness: two users hold the two slots and the third was refused as full.
C11_Witness ==
  /\ response.op = "register" /\ response.kind = "TournamentFull"
  /\ Len(doc.participants) = doc.maxParticipants
  /\ UserEntries(doc, response.actor) = {}
  /\ doc.isOpen

\* C12: whenever register, unregister, generateBracket or recordMatchResult
\* answers with a failure, the stored document is what it was before the call.
C12_AllOrNothing ==
  [][(response'.op \in CoreOps /\ response'.kind # "ok") => doc' = doc]_vars

\* C12 witness: an unregister call was refused on a started tournament that
\* has participants and matches.
C12_Witness ==
  /\ response.op = "unregister" /\ response.kind = "TournamentStarted"
  /\ Len(doc.participants) > 0 /\ Len(doc.matches) > 0

\* C13: right after every persist, performed at time now, registration.isOpen
\* is true exactly when registration.startDate <= now <= registration.endDate.
C13_IsOpenDerived ==
  JustPersisted => (doc.isOpen <=> (doc.regStart <= now /\ now <= doc.regEnd))

\* C13 witness: a persist on the last day of the window stored the flag as open.
C13_Witness ==
  /\ JustPersisted /\ response.op = "register"
  /\ now = doc.regEnd /\ doc.isOpen

\* C14: right after every persist, performed at time now, status is upcoming
\* when now < schedule.startDate, live when startDate <= now <= endDate and
\* completed when now > endDate, whatever the status was or was set to before.
C14_StatusDerived ==
  JustPersisted =>
    /\ now < doc.schedStart => doc.status = "upcoming"
    /\ (doc.schedStart <= now /\ now <= doc.schedEnd) => doc.status = "live"
    /\ now > doc.schedEnd => doc.status = "completed"

\* C14 witness: the admin route asked for 'completed' on the start date and the
\* persist stored 'live'.
C14_Witness ==
  /\ response.op = "adminStatus" /\ response.actor = "completed"
  /\ now = doc.schedStart /\ doc.status = "live"

\* C15: stats.totalMatches is the number of entries of schedule.matches after
\* every persist (and so in every stored state).
C15_TotalMatches == doc.totalMatches = Len(doc.matches)

\* C15 witness: a bracket was generated and the counter follows it.
C15_Witness ==
  /\ response.op = "generateBracket" /\ response.kind = "ok"
  /\ Len(doc.matches) > 0 /\ doc.totalMatches = Len(doc.matches)

\* C16: generateBracket by anyone but the organizer, a moderator included,
\* fails with Forbidden and leaves the document, so schedule.matches, as it was.
C16_OrganizerOnly ==
  [][(response'.op = "generateBracket" /\ response'.actor # doc.organizer) =>
       (response'.kind = "Forbidden" /\ doc' = doc)]_vars

\* C16 witness: a moderator was refused on a tournament with enough registered
\* participants for a bracket.
C16_Witness ==
  /\ response.op = "generateBracket" /\ response.kind = "Forbidden"
  /\ response.actor \in doc.moderators
  /\ EligibleCount(doc) >= 2

\* C19: register reports the first failing test in the order AlreadyRegistered,
\* RegistrationClosed (the stored flag), TournamentFull, and succeeds when none
\* fails.
C19_RegisterOrder ==
  [][response'.op = "register" =>
       response'.kind =
         IF UserEntries(doc, response'.actor) # {} THEN "AlreadyRegistered"
         ELSE IF ~doc.isOpen THEN "RegistrationClosed"
         ELSE IF ActiveCount(doc) >= doc.maxParticipants THEN "TournamentFull"
         ELSE "ok"]_vars

\* C19 witness: a new user on a closed and full tournament was answered
\* RegistrationClosed.
C19_Witness ==
  /\ response.op = "register" /\ response.kind = "RegistrationClosed"
  /\ UserEntries(doc, response.actor) = {}
  /\ ~doc.isOpen
  /\ ActiveCount(doc) >= doc.maxParticipants

\* C17 (as claimed): every tournament createTournament persists has status
\* upcoming and an empty match list.
C17_CreatedUpcomingEmpty ==
  response.op = "create" => (doc.status = "upcoming" /\ doc.matches = <<>>)

\* C18 (as claimed): a successful recordMatchResult, and a persist that changes
\* the stored status, each emit an event to the tournament's own room.
C18_EventEmitted ==
  [][((response'.op = "recordMatchResult" /\ response'.kind = "ok")
        \/ doc'.status # doc.status) =>
       io'.emitted[TournamentRoom(ThisTournament)]
         > io.emitted[TournamentRoom(ThisTournament)]]_vars

\* C20: a successful recordMatchResult sets winner, score, status completed
\* and actualEndTime = now on the match it names and on no other; every other
\* field of that match, every other match and the participant list are as
\* before.
C20_EffectAndFrame ==
  [][(response'.op = "recordMatchResult" /\ response'.kind = "ok") =>
       /\ Len(doc'.matches) = Len(doc.matches)
       /\ \E k \in 1..Len(doc.matches) : doc.matches[k].id = response'.matchId
       /\ \A k \in 1..Len(doc.matches) :
            IF doc.matches[k].id = response'.matchId
            THEN /\ doc'.matches[k].winner = response'.winner
                 /\ doc'.matches[k].score = response'.score
                 /\ doc'.matches[k].status = "completed"
                 /\ doc'.matches[k].actualEndTime = now
                 /\ doc'.matches[k].id = doc.matches[k].id
                 /\ doc'.matches[k].round = doc.matches[k].round
                 /\ doc'.matches[k].matchNumber = doc.matches[k].matchNumber
                 /\ doc'.matches[k].player1 = doc.matches[k].player1
                 /\ doc'.matches[k].player2 = doc.matches[k].player2
            ELSE doc'.matches[k] = doc.matches[k]
       /\ doc'.participants = doc.participants]_vars

C20_Witness ==
  /\ response.op = "recordMatchResult" /\ response.kind = "ok"
  /\ now > 0
  /\ \E k \in 1..Len(doc.matches) :
       /\ doc.matches[k].id = response.matchId
       /\ doc.matches[k].round = 1
       /\ doc.matches[k].winner = response.winner
       /\ doc.matches[k].actualEndTime = now
  /\ \E j \in 1..Len(doc.matches) :
       /\ doc.matches[j].round > 1
       /\ doc.matches[j].status = "scheduled"
       /\ doc.matches[j].player1 = NoUser /\ doc.matches[j].player2 = NoUser
  /\ \E j \in 1..Len(doc.matches) :
       /\ doc.matches[j].id # response.matchId
       /\ doc.matches[j].status = "completed"

\* The ids of the matches a document holds.
MatchIds(d) == {d.matches[i].id : i \in 1..Len(d.matches)}

\* C21: a recordMatchResult call naming an id that is no match of the
\* tournament fails with MatchNotFound when the caller is the organizer or a
\* moderator and with Forbidden when the caller is neither, and in both cases
\* no match and no counter changes.
C21_UnknownMatch ==
  [][(response'.op = "recordMatchResult" /\ response'.matchId \notin MatchIds(doc)) =>
       /\ response'.kind =
            IF response'.actor = doc.organizer \/ response'.actor \in doc.moderators
            THEN "MatchNotFound" ELSE "Forbidden"
       /\ doc'.matches = doc.matches
       /\ doc'.matchesCompleted = doc.matchesCompleted
       /\ doc' = doc]_vars

\* C21 witness: a moderator named the id of a match of the bracket before
\* the current one and was answered MatchNotFound.
C21_Witness ==
  /\ response.op = "recordMatchResult" /\ response.kind = "MatchNotFound"
  /\ response.actor \in doc.moderators
  /\ response.matchId \notin MatchIds(doc)
  /\ response.matchId[1] = idGen - 1 /\ idGen > 1
  /\ Len(doc.matches) > 0

\* C22: a successful generateBracket on a tournament that already has
\* matches replaces them all: no earlier match is kept, and every match is
\* scheduled, without players and without a winner.
C22_Regeneration ==
  [][(response'.op = "generateBracket" /\ response'.kind = "ok"
        /\ Len(doc.matches) > 0) =>
       /\ MatchIds(doc') \cap MatchIds(doc) = {}
       /\ Len(doc'.matches) = 2 ^ CeilLog2(RegisteredCount(doc)) - 1
       /\ \A k \in 1..Len(doc'.matches) :
            /\ doc'.matches[k].status = "scheduled"
            /\ doc'.matches[k].player1 = NoUser
            /\ doc'.matches[k].player2 = NoUser
            /\ doc'.matches[k].winner = NoUser]_vars

\* C22 witness: the bracket was generated again after a result had been
\* recorded, and no match is completed any more.
C22_Witness ==
  /\ response.op = "generateBracket" /\ response.kind = "ok"
  /\ idGen > 1
  /\ doc.matchesCompleted > 0
  /\ Len(doc.matches) > 0
  /\ CompletedCount(doc) = 0

\* C23 (as claimed): after an admin status update with requested status
\* cancelled succeeded, the persisted status is cancelled.
C23_CancellationPersisted ==
  (response.op = "adminStatus" /\ response.actor = "cancelled" /\ response.kind = "ok")
    => doc.status = "cancelled"

\* C24: a socket's rooms change only by its own join and leave messages; a
\* tournament-update naming T is sent once more, as tournament-status, to
\* each socket that is in room tournament-T at that moment and to no other;
\* a chat-message naming R is sent as new-message to each socket in chat-R
\* and to no other; no other step sends anything.
C24_RoomFanOut ==
  [][/\ \A s \in Sockets, r \in Rooms :
          ((r \in io'.rooms[s]) # (r \in io.rooms[s])) =>
            /\ response'.actor = s /\ response'.room = r
            /\ response'.op \in (IF r \in io'.rooms[s]
                                 THEN {"join-tournament", "join-chat"}
                                 ELSE {"leave-tournament"})
     /\ response'.op \in {"join-tournament", "join-chat"} =>
          response'.room \in io'.rooms[response'.actor]
     /\ response'.op = "leave-tournament" =>
          response'.room \notin io'.rooms[response'.actor]
     /\ \A s \in Sockets, d \in Deliveries :
          io'.received[s][d] =
            IF /\ response'.op \in {"tournament-update", "chat-message"}
               /\ response'.room \in io.rooms[s]
               /\ d = <<(IF response'.op = "tournament-update"
                         THEN "tournament-status" ELSE "new-message"),
                        response'.room[2]>>
            THEN io.received[s][d] + 1
            ELSE io.received[s][d]]_vars

\* C24 witness: two tournament-update messages for T1 were passed on; s1
\* was in the room for both, s2 was sent the first, left, and was not sent
\* the second; a chat message reached s1 alone.
C24_Witness ==
  /\ response.op = "tournament-update" /\ response.room = TournamentRoom("T1")
  /\ io.emitted[TournamentRoom("T1")] = 2
  /\ io.received["s1"][<<"tournament-status", "T1">>] = 2
  /\ io.received["s2"][<<"tournament-status", "T1">>] = 1
  /\ TournamentRoom("T1") \notin io.rooms["s2"]
  /\ TournamentRoom("T2") \in io.rooms["s2"]
  /\ io.received["s1"][<<"new-message", "R1">>] = 1
  /\ io.received["s2"][<<"new-message", "R1">>] = 0
  /\ \A s \in Sockets : io.received[s][<<"tournament-status", "T2">>] = 0

\* C25 (as claimed): once the interleaved register calls have finished, no
\* user has more than one participant entry.
C25_NoDuplicateRace ==
  (\A p \in Procs : reqs[p].pc = "idle") =>
    \A u \in Users : Cardinality(UserEntries(doc, u)) <= 1

\* C26 (as claimed): a successful recordMatchResult for a match that is still
\* scheduled in the store, whatever other calls ran since it read the
\* tournament, leaves that match completed, keeps every completed match
\* completed and raises the stored stats.matchesCompleted by one (so two
\* such calls raise it by two).
C26_NoLostUpdate ==
  [][(/\ response'.op = "recordMatchResult" /\ response'.kind = "ok"
      /\ \E k \in 1..Len(doc.matches) :
           doc.matches[k].id = response'.matchId /\ doc.matches[k].status = "scheduled") =>
       /\ \A k \in 1..Len(doc.matches) :
            (doc.matches[k].id = response'.matchId \/ doc.matches[k].status = "completed")
              => doc'.matches[k].status = "completed"
       /\ doc'.matchesCompleted = doc.matchesCompleted + 1]_vars

\* C27 (as claimed): in every persisted state, stats.matchesCompleted lies
\* between 0 and stats.totalMatches.
C27_CounterBound ==
  0 <= doc.matchesCompleted /\ doc.matchesCompleted <= doc.totalMatches

\* C28 (as claimed): an unregister call made at a time now >= schedule.startDate
\* removes no participant entry.
C28_NoRemovalAfterStart ==
  [][(response'.op = "unregister" /\ now >= doc.schedStart) =>
       doc'.participants = doc.participants]_vars

\* C29 (as claimed): every completed match has a winner who is a participant
\* of the tournament and, where players are assigned, is one of them.
C29_WinnerValid ==
  \A k \in 1..Len(doc.matches) :
    doc.matches[k].status = "completed" =>
      /\ UserEntries(doc, doc.matches[k].winner) # {}
      /\ doc.matches[k].player1 # NoUser =>
           doc.matches[k].winner \in {doc.matches[k].player1, doc.matches[k].player2}

\* The place of a status on the path upcoming -> live -> completed.
LifecycleRank(status) ==
  CASE status = "upcoming" -> 1
    [] status = "live" -> 2
    [] status = "completed" -> 3
    [] OTHER -> 0

\* C30: the persisted status is always one of upcoming, live, completed
\* (never registration), and no step, admin status updates included, moves
\* it back along upcoming -> live -> completed.
C30_MonotoneLifecycle ==
  /\ [](doc.status \in {"upcoming", "live", "completed"})
  /\ [][LifecycleRank(doc'.status) >= LifecycleRank(doc.status)]_vars

\* C30 witness: after the schedule window an admin asked for an earlier
\* status and the persisted status is completed.
C30_Witness ==
  /\ response.op = "adminStatus" /\ response.kind = "ok"
  /\ response.actor \in {"upcoming", "registration", "live"}
  /\ now > doc.schedEnd
  /\ doc.status = "completed"

====
